---- MODULE Spec2Model ----
(***************************************************************************)
(* Model of the easy-vid-trainer server: the datasets and videos tables,   *)
(* the request handlers of src/api/datasets.ts and src/api/videos.ts, and  *)
(* the batch processor (processDataset / processVideo).                    *)
(*                                                                         *)
(* A nullable integer column (fps, frame_count) is modelled as a set of    *)
(* integers: {} is NULL, {n} is the value n.                               *)
(***************************************************************************)
EXTENDS Integers, Sequences, FiniteSets, TLC

\* ---------------------------------------------------------------- bounds

\* Datasets ever created (ids are AUTOINCREMENT and never reused).
MaxDatasets == 2
\* Videos ever uploaded (ids are AUTOINCREMENT and never reused).
MaxVideos == 2
\* Files of one upload request.
MaxFiles == 2
\* processDataset calls in flight at the same time.
MaxRuns == 2
\* Requests accepted (answered 2xx) in one behaviour.
MaxRequests == 4
MaxWrites == 3
\* Width and height of the small frames the crop is positioned in.
MaxSide == 3
\* Width and height of the frames the crop size is computed for.
MaxFrame == 40
\* Calls of scheduleSave and saveImmediately in one behaviour.
MaxEdits == 4

\* ------------------------------------------------------- program constants

DefaultDuration == 30
DefaultWidth == 1920
DefaultHeight == 1080

Null == {}

Statuses == {"pending", "processed", "error"}

Resolutions == {"1280x720", "720x1280", "768x768"}

\* The fields a video patch request is documented to carry.
ConfigFields == {"startTime", "resolution", "cropX", "cropY", "cropWidth", "cropHeight"}

\* ----------------------------------------------------------------- inputs

\* Dataset names a client sends; "" is the missing name.
Names == {"", "cats", "dogs"}

\* What ffprobe reports for an uploaded file; "unreadable" makes it fail.
FileKinds == {"clip", "unreadable"}

ProbeSucceeds(kind) == kind = "clip"

ClipMetadata ==
    [duration |-> 10, width |-> 640, height |-> 480, fps |-> {30}, frameCount |-> {300}]

\* Bodies of batch trigger requests: a valid one, a zero fps, a negative fps,
\* a missing frameCount.
Configs ==
    { [fps |-> 16, frameCount |-> 81],
      [fps |-> 0, frameCount |-> 81],
      [fps |-> 0 - 1, frameCount |-> 81],
      [fps |-> 16] }

\* Bodies of video patch requests that carry configuration fields only: what
\* the crop editor and the start-time input save, and a crop outside the frame.
ConfigPatchBodies ==
    { [startTime |-> 5, resolution |-> "768x768", cropX |-> 80, cropY |-> 0,
       cropWidth |-> 480, cropHeight |-> 480],
      [cropX |-> 2000] }

\* Bodies of video patch requests that carry another column, or a value the
\* table's CHECK constraints refuse.
OtherPatchBodies ==
    { [status |-> "processed"],
      [status |-> "done"],
      [resolution |-> "640x480"] }

PatchBodies == ConfigPatchBodies \cup OtherPatchBodies

\* ------------------------------------------------------------------ state

VARIABLES
    datasets,       \* table datasets: id -> [name]
    videos,         \* table videos: id -> row
    nextDatasetId,  \* AUTOINCREMENT counter of datasets
    nextVideoId,    \* AUTOINCREMENT counter of videos
    runs,           \* processDataset calls: slot -> call state
    served,         \* number of requests accepted so far
    session,        \* the processing panel of one browser (useProcessing)
    disk,           \* the files under uploads/ and output/
    calls,          \* an upload and a dataset deletion served await by await
    panel,          \* the video detail panel of the browser (useCropManagement)
    debounce,       \* one useDebouncedSave instance
    calc            \* a call of a crop function of video-utils: arguments, result

vars == <<datasets, videos, nextDatasetId, nextVideoId, runs, served, session,
          disk, calls, panel, debounce, calc>>

\* An accepted request is counted; a rejected one leaves the count alone.
Count(status) ==
    IF status = 200
    THEN served < MaxRequests /\ served' = served + 1
    ELSE UNCHANGED served

RunSlots == 1..MaxRuns

NoRun == [pc |-> "free"]

\* No file has been written: raw holds the uploaded files, out the converted
\* ones, written counts the file names generated so far.
EmptyDisk == [raw |-> {}, out |-> {}, written |-> 0]

\* ---------------------------------------------------------------- helpers

\* The ids of S in ascending order (the order the relation is read in).
SortedIds(S) ==
    CHOOSE s \in [1..Cardinality(S) -> S] :
        \A i, j \in 1..Cardinality(S) : i < j => s[i] < s[j]

\* dataset.videos of db.query.datasets.findFirst({ with: { videos: true } }).
DatasetVideos(d) ==
    LET ids == {v \in DOMAIN videos : videos[v].datasetId = d}
        order == SortedIds(ids)
    IN  [k \in 1..Cardinality(ids) |-> videos[order[k]]]

\* JavaScript's !x for a field of a parsed JSON body.
Falsy(body, field) == field \notin DOMAIN body \/ body[field] = 0

\* `uploads/${datasetId}/${uniqueFilename}`: the generated name is modelled by
\* the number of the write, which no two files share.
UploadPath(d, n) == [dir |-> d, file |-> n]

\* join(process.cwd(), 'output', dataset.name)
OutputDir(name) == name

\* join(outputDir, `vid_${String(i + 1).padStart(4, '0')}.mp4`)
OutputPath(name, i) == [dir |-> OutputDir(name), file |-> i]

\* file.delete() inside try/catch: a file that is not there is tolerated.
DeleteFile(files, path) == files \ {path}

\* Faulty variant of RemoveDir: rmdir without recursive fails on a directory
\* that holds a file, and the failure is only logged.
RemoveDirIfEmpty(files, dir) == files

\* rmdir(dir, { recursive: true }) guarded by existsSync, inside try/catch.
RemoveDir(files, dir) == {f \in files : f.dir # dir}

\* No video is selected in the detail panel: video is the selected video as
\* the page last read it, localCrop the optimistic crop state (positions in
\* half pixels), timer the video id the pending 500 ms save is addressed to.
NoPanel == [video |-> <<>>, startTime |-> 0, localCrop |-> <<>>, timer |-> <<>>]

\* No save is scheduled and none was performed.
NoDebounce == [mounted |-> TRUE, timer |-> <<>>, burst |-> <<>>, saved |-> <<>>, edits |-> 0]

\* The response a client received: whether the request named an id that is
\* not stored, whether its body was refused before the lookup, the status.
NoAnswer == [missing |-> FALSE, early |-> FALSE, status |-> 200]

\* No upload and no dataset deletion is between two of its awaits. answer is
\* the response a client that watches its requests received last.
NoCalls == [upload |-> [pc |-> "free"], delete |-> [pc |-> "free"],
            answer |-> NoAnswer]

\* ------------------------------------------------------------ createDataset

CreateDatasetStatus(name) == IF name = "" THEN 400 ELSE 200

CreateDataset(name) ==
    /\ Count(CreateDatasetStatus(name))
    /\ IF CreateDatasetStatus(name) = 200
       THEN /\ nextDatasetId <= MaxDatasets
            /\ datasets' = datasets @@ (nextDatasetId :> [name |-> name])
            /\ nextDatasetId' = nextDatasetId + 1
       ELSE UNCHANGED <<datasets, nextDatasetId>>
    /\ UNCHANGED <<videos, nextVideoId, runs, session, disk, panel, debounce, calc>>

\* ------------------------------------------------------------- uploadVideos

\* Faulty variant of UploadMetadata: the upload keeps the probed duration and frame
\* size but not the probed fps and frameCount.
UploadMetadataWithoutRates(kind) ==
    IF ProbeSucceeds(kind)
    THEN [ClipMetadata EXCEPT !.fps = Null, !.frameCount = Null]
    ELSE [duration |-> DefaultDuration, width |-> DefaultWidth,
          height |-> DefaultHeight, fps |-> Null, frameCount |-> Null]

\* Faulty variant of UploadMetadata: a failed probe leaves the zeros its
\* parse starts from (|| '0') instead of the fallback values.
UploadMetadataZeroed(kind) ==
    IF ProbeSucceeds(kind)
    THEN ClipMetadata
    ELSE [duration |-> 0, width |-> 0, height |-> 0, fps |-> Null, frameCount |-> Null]

\* The metadata the upload stores for a file: the probe's, or the fallback.
UploadMetadata(kind) ==
    IF ProbeSucceeds(kind)
    THEN ClipMetadata
    ELSE [duration |-> DefaultDuration, width |-> DefaultWidth,
          height |-> DefaultHeight, fps |-> Null, frameCount |-> Null]

\* The row db.insert(videos).values({...}) creates, with the column defaults.
NewVideo(id, d, kind, filepath) ==
    LET m == UploadMetadata(kind)
    IN  [id |-> id, datasetId |-> d,
         filepath |-> filepath,
         duration |-> m.duration,
         originalWidth |-> m.width, originalHeight |-> m.height,
         startTime |-> 0, resolution |-> "1280x720",
         cropX |-> 0, cropY |-> 0,
         cropWidth |-> m.width, cropHeight |-> m.height,
         fps |-> m.fps, frameCount |-> m.frameCount,
         status |-> "pending"]

\* Faulty variant of UploadVideosStatus: the dataset is not looked up.
UploadVideosStatusNoLookup(d, files) ==
    IF Len(files) = 0 THEN 400 ELSE 200

UploadVideosStatus(d, files) ==
    IF Len(files) = 0 THEN 400
    ELSE IF d \notin DOMAIN datasets THEN 404
    ELSE 200

UploadVideos(d, files) ==
    /\ Count(UploadVideosStatus(d, files))
    /\ IF UploadVideosStatus(d, files) = 200
       THEN /\ nextVideoId + Len(files) - 1 <= MaxVideos
            /\ videos' = videos @@
                   [id \in nextVideoId..(nextVideoId + Len(files) - 1) |->
                       NewVideo(id, d, files[id - nextVideoId + 1],
                                UploadPath(d, disk.written + 1 + id - nextVideoId))]
            /\ nextVideoId' = nextVideoId + Len(files)
            /\ disk' = [disk EXCEPT
                   !.raw = @ \cup {UploadPath(d, disk.written + k) : k \in 1..Len(files)},
                   !.written = @ + Len(files)]
       ELSE UNCHANGED <<videos, nextVideoId, disk>>
    /\ UNCHANGED <<datasets, nextDatasetId, runs, session, panel, debounce, calc>>

\* ----------------------------------------------------- getVideo, getDataset

GetVideoStatus(v) == IF v \notin DOMAIN videos THEN 404 ELSE 200

GetVideo(v) ==
    /\ Count(GetVideoStatus(v))
    /\ UNCHANGED <<datasets, videos, nextDatasetId, nextVideoId, runs, session, disk,
                 panel, debounce, calc>>

GetDatasetStatus(d) == IF d \notin DOMAIN datasets THEN 404 ELSE 200

GetDataset(d) ==
    /\ Count(GetDatasetStatus(d))
    /\ UNCHANGED <<datasets, videos, nextDatasetId, nextVideoId, runs, session, disk,
                 panel, debounce, calc>>

\* -------------------------------------------------------------- updateVideo

\* The CHECK constraints of the videos table.
ViolatesCheck(updates) ==
    \/ "status" \in DOMAIN updates /\ updates.status \notin Statuses
    \/ "resolution" \in DOMAIN updates /\ updates.resolution \notin Resolutions

\* Faulty variant of SetClause: a patch also puts the video back to pending.
SetClauseResetsStatus(row, updates) ==
    [c \in DOMAIN row |->
        IF c \in DOMAIN updates THEN updates[c]
        ELSE IF c = "status" THEN "pending"
        ELSE row[c]]

\* UPDATE videos SET <updates>: every column the body names is overwritten.
SetClause(row, updates) ==
    [c \in DOMAIN row |-> IF c \in DOMAIN updates THEN updates[c] ELSE row[c]]

UpdateVideoStatus(v, updates) ==
    IF v \notin DOMAIN videos THEN 404
    ELSE IF ViolatesCheck(updates) THEN 500
    ELSE 200

UpdateVideo(v, updates) ==
    /\ Count(UpdateVideoStatus(v, updates))
    /\ videos' = IF UpdateVideoStatus(v, updates) = 200
                 THEN [videos EXCEPT ![v] = SetClause(videos[v], updates)]
                 ELSE videos
    /\ UNCHANGED <<datasets, nextDatasetId, nextVideoId, runs, session, disk, debounce, calc>>

\* -------------------------------------------------------------- deleteVideo

DeleteVideoStatus(v) == IF v \notin DOMAIN videos THEN 404 ELSE 200

DeleteVideo(v) ==
    /\ Count(DeleteVideoStatus(v))
    /\ videos' = [w \in DOMAIN videos \ {v} |-> videos[w]]
    /\ disk' = IF DeleteVideoStatus(v) = 200
               THEN [disk EXCEPT !.raw = DeleteFile(@, videos[v].filepath)]
               ELSE disk
    /\ UNCHANGED <<datasets, nextDatasetId, nextVideoId, runs, session, panel, debounce, calc>>

\* ------------------------------------------------------------ deleteDataset

DeleteDatasetStatus(d) == IF d \notin DOMAIN datasets THEN 404 ELSE 200

DeleteDataset(d) ==
    /\ Count(DeleteDatasetStatus(d))
    /\ IF DeleteDatasetStatus(d) = 200
       THEN /\ videos' = [w \in {x \in DOMAIN videos : videos[x].datasetId # d} |-> videos[w]]
            /\ datasets' = [e \in DOMAIN datasets \ {d} |-> datasets[e]]
            /\ disk' = [disk EXCEPT !.raw = RemoveDir(@, d),
                                    !.out = RemoveDir(@, OutputDir(datasets[d].name))]
       ELSE UNCHANGED <<videos, datasets, disk>>
    /\ UNCHANGED <<nextDatasetId, nextVideoId, runs, session, panel, debounce, calc>>

\* -------------------------------------------- uploadVideos, await by await

\* The request arrives: the 400 and 404 checks, then the loop over the files.
UploadBegin(d, files) ==
    /\ calls.upload.pc = "free"
    /\ Count(UploadVideosStatus(d, files))
    /\ calls' = IF UploadVideosStatus(d, files) = 200
                THEN [calls EXCEPT !.upload =
                         [pc |-> "write", datasetId |-> d, files |-> files,
                          k |-> 1, filepath |-> UploadPath(d, 0)]]
                ELSE calls
    /\ UNCHANGED <<datasets, videos, nextDatasetId, nextVideoId, runs, session, disk,
                 panel, debounce, calc>>

\* await Bun.write(filepath, file) for the file the loop is at.
UploadWrite ==
    /\ calls.upload.pc = "write"
    /\ disk.written < MaxWrites
    /\ LET filepath == UploadPath(calls.upload.datasetId, disk.written + 1)
       IN  /\ disk' = [disk EXCEPT !.raw = @ \cup {filepath}, !.written = @ + 1]
           /\ calls' = [calls EXCEPT !.upload.pc = "insert",
                                     !.upload.filepath = filepath]
    /\ UNCHANGED <<datasets, videos, nextDatasetId, nextVideoId, runs, served, session,
                 panel, debounce, calc>>

\* The probe and db.insert(videos) for the file just written. The insert is
\* refused by the foreign key when the dataset row is gone; the error leaves
\* the loop and the handler answers 500.
UploadInsert ==
    /\ calls.upload.pc = "insert"
    /\ LET c == calls.upload
       IN  IF c.datasetId \in DOMAIN datasets
           THEN /\ nextVideoId <= MaxVideos
                /\ videos' = videos @@
                       (nextVideoId :>
                           NewVideo(nextVideoId, c.datasetId, c.files[c.k], c.filepath))
                /\ nextVideoId' = nextVideoId + 1
                /\ calls' = [calls EXCEPT
                       !.upload.k = @ + 1,
                       !.upload.pc = IF c.k + 1 > Len(c.files) THEN "done" ELSE "write"]
           ELSE /\ calls' = [calls EXCEPT !.upload.pc = "failed"]
                /\ UNCHANGED <<videos, nextVideoId>>
    /\ UNCHANGED <<datasets, nextDatasetId, runs, served, session, disk, panel, debounce, calc>>

\* The response of the upload has been sent.
UploadReturn ==
    /\ calls.upload.pc \in {"done", "failed"}
    /\ calls' = [calls EXCEPT !.upload = NoCalls.upload]
    /\ UNCHANGED <<datasets, videos, nextDatasetId, nextVideoId, runs, served, session,
                 disk, panel, debounce, calc>>

\* ------------------------------------------- deleteDataset, await by await

\* The request arrives: the dataset is read with its videos, or 404.
DeleteBegin(d) ==
    /\ calls.delete.pc = "free"
    /\ Count(DeleteDatasetStatus(d))
    /\ calls' = IF DeleteDatasetStatus(d) = 200
                THEN [calls EXCEPT !.delete =
                         [pc |-> IF Len(DatasetVideos(d)) = 0 THEN "rows" ELSE "files",
                          datasetId |-> d, name |-> datasets[d].name,
                          list |-> DatasetVideos(d), k |-> 1, removed |-> {}]]
                ELSE calls
    /\ UNCHANGED <<datasets, videos, nextDatasetId, nextVideoId, runs, session, disk,
                 panel, debounce, calc>>

\* await file.delete() for the video of the snapshot the loop is at.
DeleteNextFile ==
    /\ calls.delete.pc = "files"
    /\ LET c == calls.delete
       IN  /\ disk' = [disk EXCEPT !.raw = DeleteFile(@, c.list[c.k].filepath)]
           /\ calls' = [calls EXCEPT
                  !.delete.k = @ + 1,
                  !.delete.pc = IF c.k + 1 > Len(c.list) THEN "rows" ELSE "files"]
    /\ UNCHANGED <<datasets, videos, nextDatasetId, nextVideoId, runs, served, session,
                 panel, debounce, calc>>

\* await db.delete(videos).where(eq(videos.datasetId, datasetId)): the rows
\* stored now, whether or not the snapshot holds them. The call remembers
\* the files of the rows it removed.
DeleteVideoRows ==
    /\ calls.delete.pc = "rows"
    /\ LET d == calls.delete.datasetId
           gone == {v \in DOMAIN videos : videos[v].datasetId = d}
       IN  /\ videos' = [w \in DOMAIN videos \ gone |-> videos[w]]
           /\ calls' = [calls EXCEPT
                  !.delete.pc = "dataset",
                  !.delete.removed = {videos[v].filepath : v \in gone}]
    /\ UNCHANGED <<datasets, nextDatasetId, nextVideoId, runs, served, session, disk,
                 panel, debounce, calc>>

\* await db.delete(datasets).where(eq(datasets.id, id)): refused by the
\* foreign key when a video row of the dataset was inserted meanwhile; the
\* outer catch answers 500.
DeleteDatasetRow ==
    /\ calls.delete.pc = "dataset"
    /\ LET d == calls.delete.datasetId
       IN  IF \E v \in DOMAIN videos : videos[v].datasetId = d
           THEN /\ calls' = [calls EXCEPT !.delete.pc = "failed"]
                /\ UNCHANGED datasets
           ELSE /\ datasets' = [e \in DOMAIN datasets \ {d} |-> datasets[e]]
                /\ calls' = [calls EXCEPT !.delete.pc = "uploads"]
    /\ UNCHANGED <<videos, nextDatasetId, nextVideoId, runs, served, session, disk,
                 panel, debounce, calc>>

\* The uploads directory of the dataset is removed.
DeleteUploadsDir ==
    /\ calls.delete.pc = "uploads"
    /\ disk' = [disk EXCEPT !.raw = RemoveDir(@, calls.delete.datasetId)]
    /\ calls' = [calls EXCEPT !.delete.pc = "output"]
    /\ UNCHANGED <<datasets, videos, nextDatasetId, nextVideoId, runs, served, session,
                 panel, debounce, calc>>

\* The output directory of the dataset is removed and success is reported.
DeleteOutputDir ==
    /\ calls.delete.pc = "output"
    /\ disk' = [disk EXCEPT !.out = RemoveDir(@, OutputDir(calls.delete.name))]
    /\ calls' = [calls EXCEPT !.delete.pc = "succeeded"]
    /\ UNCHANGED <<datasets, videos, nextDatasetId, nextVideoId, runs, served, session,
                 panel, debounce, calc>>

\* The response of the deletion has been sent.
DeleteReturn ==
    /\ calls.delete.pc \in {"succeeded", "failed"}
    /\ calls' = [calls EXCEPT !.delete = NoCalls.delete]
    /\ UNCHANGED <<datasets, videos, nextDatasetId, nextVideoId, runs, served, session,
                 disk, panel, debounce, calc>>

\* ----------------------------------------------------------- processDataset

\* resolution.split('x').map(Number)
ResolutionSize(resolution) ==
    CASE resolution = "1280x720" -> [rw |-> 1280, rh |-> 720]
      [] resolution = "720x1280" -> [rw |-> 720, rh |-> 1280]
      [] resolution = "768x768" -> [rw |-> 768, rh |-> 768]

\* Faulty variant of ProcessVideo: the row is read again before the converter
\* is spawned, so the values stored now are used.
ProcessVideoRereads(video, outputPath, config) ==
    LET row == IF video.id \in DOMAIN videos THEN videos[video.id] ELSE video
    IN  [input |-> row.filepath,
         ss |-> row.startTime,
         crop |-> <<row.cropWidth, row.cropHeight, row.cropX, row.cropY>>,
         scale |-> ResolutionSize(row.resolution),
         r |-> config.fps,
         frames |-> config.frameCount,
         output |-> outputPath]

\* processVideo: the arguments ffmpeg is spawned with, taken from the video
\* object the caller passes.
ProcessVideo(video, outputPath, config) ==
    [input |-> video.filepath,
     ss |-> video.startTime,
     crop |-> <<video.cropWidth, video.cropHeight, video.cropX, video.cropY>>,
     scale |-> ResolutionSize(video.resolution),
     r |-> config.fps,
     frames |-> config.frameCount,
     output |-> outputPath]

\* if (!config.fps || !config.frameCount) return 400
ConfigRejected(config) == Falsy(config, "fps") \/ Falsy(config, "frameCount")

ProcessDatasetStatus(d, config) ==
    IF ConfigRejected(config) THEN 400
    ELSE IF d \notin DOMAIN datasets THEN 404
    ELSE 200

\* Faulty variant of StartedRun: the response is produced as soon as the
\* dataset has been read, before the loop has attempted any video.
StartedRunDetached(d, config) ==
    LET list == DatasetVideos(d)
    IN  [pc |-> "done",
         datasetId |-> d, name |-> datasets[d].name, config |-> config,
         list |-> list, totalVideos |-> Len(list),
         i |-> 1, processedCount |-> 0, failed |-> {}, spawned |-> <<>>]

\* The call's state once the dataset and its videos have been read: the
\* snapshot list, the loop index i and the counters of the loop; spawned
\* holds the arguments of the converter while one is running.
StartedRun(d, config) ==
    LET list == DatasetVideos(d)
    IN  [pc |-> IF Len(list) = 0 THEN "done" ELSE "mark",
         datasetId |-> d, name |-> datasets[d].name, config |-> config,
         list |-> list, totalVideos |-> Len(list),
         i |-> 1, processedCount |-> 0, failed |-> {}, spawned |-> <<>>]

FreeSlots == {r \in RunSlots : runs[r].pc = "free"}

\* A batch trigger request arrives: validation, the dataset read, mkdir. A
\* rejected request returns its error response and changes nothing.
ProcessDataset(d, config) ==
    /\ Count(ProcessDatasetStatus(d, config))
    /\ IF ProcessDatasetStatus(d, config) = 200
       THEN /\ FreeSlots # {}
            /\ LET r == CHOOSE x \in FreeSlots : \A y \in FreeSlots : x <= y
               IN  runs' = [runs EXCEPT ![r] = StartedRun(d, config)]
       ELSE UNCHANGED runs
    /\ UNCHANGED <<datasets, videos, nextDatasetId, nextVideoId, disk, panel, debounce, calc>>

\* .set({ status: 'pending' })
PendingUpdate(row) == [row EXCEPT !.status = "pending"]

\* Faulty variant of ProcessedUpdate: the write also puts the start time back
\* to its default.
ProcessedUpdateResetsStart(row, config) ==
    [row EXCEPT !.status = "processed",
                !.fps = {config.fps},
                !.frameCount = {config.frameCount},
                !.startTime = 0]

\* .set({ status: 'processed', fps: config.fps, frameCount: config.frameCount })
ProcessedUpdate(row, config) ==
    [row EXCEPT !.status = "processed",
                !.fps = {config.fps},
                !.frameCount = {config.frameCount}]

\* Faulty variant of ErrorUpdate: the failure write also clears fps and frameCount.
ErrorUpdateClearsRates(row) ==
    [row EXCEPT !.status = "error", !.fps = Null, !.frameCount = Null]

\* .set({ status: 'error' })
ErrorUpdate(row) == [row EXCEPT !.status = "error"]

\* The video of the snapshot the loop is at.
CurrentVideo(r) == runs[r].list[runs[r].i]

\* The loop marks the current video pending and spawns the converter.
MarkPending(r) ==
    /\ runs[r].pc = "mark"
    /\ LET id == CurrentVideo(r).id
       IN  videos' = IF id \in DOMAIN videos
                     THEN [videos EXCEPT ![id] = PendingUpdate(videos[id])]
                     ELSE videos
    /\ runs' = [runs EXCEPT
           ![r].pc = "convert",
           ![r].spawned = <<ProcessVideo(CurrentVideo(r),
                                         OutputPath(runs[r].name, runs[r].i),
                                         runs[r].config)>>]
    /\ UNCHANGED <<datasets, nextDatasetId, nextVideoId, served, session, disk, calls,
                 panel, debounce, calc>>

\* Faulty variant of AfterExit: processedCount++ sits after the try block, so a
\* failed video is counted too.
AfterExitCountsAll(run, exitCode) ==
    [run EXCEPT
        !.processedCount = @ + 1,
        !.failed = IF exitCode = 0 THEN @ ELSE @ \cup {run.list[run.i].id},
        !.i = @ + 1,
        !.spawned = <<>>,
        !.pc = IF run.i + 1 > Len(run.list) THEN "done" ELSE "mark"]

\* Faulty variant of AfterExit: a converter failure leaves the loop (the error is
\* recorded, the remaining videos are skipped).
AfterExitAborts(run, exitCode) ==
    [run EXCEPT
        !.processedCount = IF exitCode = 0 THEN @ + 1 ELSE @,
        !.failed = IF exitCode = 0 THEN @ ELSE @ \cup {run.list[run.i].id},
        !.i = @ + 1,
        !.spawned = <<>>,
        !.pc = IF exitCode # 0 \/ run.i + 1 > Len(run.list) THEN "done" ELSE "mark"]

\* The call's state after the converter of the current video exited.
AfterExit(run, exitCode) ==
    [run EXCEPT
        !.processedCount = IF exitCode = 0 THEN @ + 1 ELSE @,
        !.failed = IF exitCode = 0 THEN @ ELSE @ \cup {run.list[run.i].id},
        !.i = @ + 1,
        !.spawned = <<>>,
        !.pc = IF run.i + 1 > Len(run.list) THEN "done" ELSE "mark"]

\* The converter exits with an exit code the model does not predict; exit
\* code 0 is success, anything else throws into the catch block.
ConverterExit(r, exitCode) ==
    /\ runs[r].pc = "convert"
    /\ LET id == CurrentVideo(r).id
       IN  videos' = IF id \notin DOMAIN videos THEN videos
                     ELSE IF exitCode = 0
                     THEN [videos EXCEPT ![id] = ProcessedUpdate(videos[id], runs[r].config)]
                     ELSE [videos EXCEPT ![id] = ErrorUpdate(videos[id])]
    /\ runs' = [runs EXCEPT ![r] = AfterExit(runs[r], exitCode)]
    /\ disk' = IF exitCode = 0
               THEN [disk EXCEPT !.out = @ \cup {OutputPath(runs[r].name, runs[r].i)}]
               ELSE disk
    /\ UNCHANGED <<datasets, nextDatasetId, nextVideoId, served, session, calls, panel,
                 debounce, calc>>

\* The response body of a call that ran the loop.
ProcessResponse(run) ==
    [processedCount |-> run.processedCount, totalVideos |-> run.totalVideos]

\* The client has received the response.
ProcessAck(r) ==
    /\ runs[r].pc = "done"
    /\ runs' = [runs EXCEPT ![r] = NoRun]
    /\ UNCHANGED <<datasets, videos, nextDatasetId, nextVideoId, served, disk, calls,
                 panel, debounce, calc>>

\* ------------------------------------------- the processing panel (client)

\* useProcessing before startProcessing was ever called. closure is the value
\* of isProcessing that the running startProcessing captured; tick is the
\* parity of the interval ticks so far; grace and safetyNet tell whether the
\* 2 s and the 5 min timeout are pending; captured is the pollIntervalId the
\* stopPolling of the running interval sees (query-based version).
NoSession ==
    [pc |-> "idle", datasetId |-> 0, run |-> 0,
     isProcessing |-> FALSE, closure |-> FALSE, polling |-> FALSE, tick |-> 0,
     progress |-> <<>>, grace |-> FALSE, safetyNet |-> FALSE, captured |-> FALSE]

\* isVideoConfigured(video)
IsVideoConfigured(row) ==
    /\ row.startTime >= 0
    /\ row.cropWidth > 0
    /\ row.cropHeight > 0

\* canProcess, for the videos of the dataset the panel shows.
CanProcess(d) ==
    /\ Len(DatasetVideos(d)) > 0
    /\ \E k \in 1..Len(DatasetVideos(d)) : IsVideoConfigured(DatasetVideos(d)[k])
    /\ ~session.isProcessing

\* The entry startProcessing shows for a video before the first poll.
InitialEntry(row) ==
    IF row.status = "processed"
    THEN [progress |-> 100, status |-> "completed", message |-> "Already processed"]
    ELSE [progress |-> 25, status |-> "processing", message |-> "Starting processing..."]

\* initialProgress: one entry per video of the panel, keyed by videoId.
InitialProgress(d) ==
    [v \in {w \in DOMAIN videos : videos[w].datasetId = d} |-> InitialEntry(videos[v])]

\* message || 'Processing video...'
MessageOr(message, fallback) == IF message = "" THEN fallback ELSE message

\* Faulty variant of DeriveEntry: an error entry starts again at progress 0
\* instead of carrying the previous progress forward.
DeriveEntryResetsError(status, prev) ==
    CASE status = "processed" ->
            [progress |-> 100, status |-> "completed", message |-> "Processing complete"]
      [] status = "error" ->
            [progress |-> 0, status |-> "error", message |-> "Processing failed"]
      [] status = "pending" ->
            [progress |-> 75, status |-> "processing", message |-> "Processing video..."]
      [] OTHER ->
            IF prev # <<>> /\ prev[1].status = "processing"
            THEN [progress |-> prev[1].progress, status |-> "processing",
                  message |-> MessageOr(prev[1].message, "Processing video...")]
            ELSE [progress |-> 0, status |-> "idle", message |-> "Waiting to start..."]

\* The body of the map callback of a poll: the entry derived from the
\* polled status and the previous entry of the video (prev is <<>> when
\* currentProgress.find gives none, <<entry>> otherwise).
DeriveEntry(status, prev) ==
    CASE status = "processed" ->
            [progress |-> 100, status |-> "completed", message |-> "Processing complete"]
      [] status = "error" ->
            [progress |-> IF prev = <<>> THEN 0 ELSE prev[1].progress,
             status |-> "error", message |-> "Processing failed"]
      [] status = "pending" ->
            [progress |-> 75, status |-> "processing", message |-> "Processing video..."]
      [] OTHER ->
            IF prev # <<>> /\ prev[1].status = "processing"
            THEN [progress |-> prev[1].progress, status |-> "processing",
                  message |-> MessageOr(prev[1].message, "Processing video...")]
            ELSE [progress |-> 0, status |-> "idle", message |-> "Waiting to start..."]

\* currentProgress.find(p => p.videoId === video.id)
PrevEntry(progress, v) == IF v \in DOMAIN progress THEN <<progress[v]>> ELSE <<>>

\* updatedProgress of a poll that read the dataset d.
PolledProgress(d, progress) ==
    [v \in {w \in DOMAIN videos : videos[w].datasetId = d} |->
        DeriveEntry(videos[v].status, PrevEntry(progress, v))]

\* updatedProgress.every(p => p.status === 'completed' || p.status === 'error')
AllDone(progress) ==
    \A v \in DOMAIN progress : progress[v].status \in {"completed", "error"}

\* The slot the next accepted batch call takes.
FreeSlot == CHOOSE x \in FreeSlots : \A y \in FreeSlots : x <= y

\* startProcessing(config) up to its await: the flag, the initial progress,
\* the polling interval, and the batch request, which the server receives.
StartProcessing(d, config) ==
    /\ session.pc = "idle"
    /\ CanProcess(d)
    /\ ProcessDataset(d, config)
    /\ session' = [session EXCEPT
           !.pc = IF ProcessDatasetStatus(d, config) = 200 THEN "awaiting" ELSE "rejected",
           !.datasetId = d,
           !.run = IF ProcessDatasetStatus(d, config) = 200 THEN FreeSlot ELSE 0,
           !.closure = session.isProcessing,
           !.isProcessing = TRUE,
           !.polling = TRUE,
           !.progress = InitialProgress(d)]
    /\ UNCHANGED calls

\* One tick of the polling interval: the dataset is fetched and the progress
\* list replaced; when every entry is completed or error and the captured
\* isProcessing is true, the 2 s timeout is set.
Poll ==
    /\ session.polling
    /\ IF session.datasetId \notin DOMAIN datasets
       THEN session' = [session EXCEPT !.tick = 1 - @]
       ELSE LET updatedProgress == PolledProgress(session.datasetId, session.progress)
            IN  session' = [session EXCEPT
                    !.tick = 1 - @,
                    !.progress = updatedProgress,
                    !.grace = @ \/ (AllDone(updatedProgress) /\ session.closure)]
    /\ UNCHANGED <<datasets, videos, nextDatasetId, nextVideoId, runs, served, disk,
                 calls, panel, debounce, calc>>

\* The 2 s timeout set by a poll fires. (A poll sets it only when the
\* captured isProcessing is true.)
GraceFires ==
    /\ session.grace
    /\ session' = [session EXCEPT
           !.polling = FALSE, !.isProcessing = FALSE, !.grace = FALSE]
    /\ UNCHANGED <<datasets, videos, nextDatasetId, nextVideoId, runs, served, disk,
                 calls, panel, debounce, calc>>

\* The batch request returns its summary to startProcessing, which sets the
\* 5 min timeout.
SessionReturn ==
    /\ session.pc = "awaiting"
    /\ ProcessAck(session.run)
    /\ session' = [session EXCEPT !.pc = "idle", !.run = 0, !.safetyNet = TRUE]

\* The 5 min timeout fires.
SafetyNetFires ==
    /\ session.safetyNet
    /\ session' = [session EXCEPT
           !.polling = FALSE, !.isProcessing = FALSE, !.safetyNet = FALSE]
    /\ UNCHANGED <<datasets, videos, nextDatasetId, nextVideoId, runs, served, disk,
                 calls, panel, debounce, calc>>

\* The batch request was answered with an error: the catch block.
SessionCatch ==
    /\ session.pc = "rejected"
    /\ session' = [session EXCEPT
           !.pc = "idle",
           !.progress = [v \in DOMAIN @ |->
                            [@[v] EXCEPT !.status = "error", !.message = "Processing failed"]],
           !.polling = FALSE,
           !.isProcessing = FALSE]
    /\ UNCHANGED <<datasets, videos, nextDatasetId, nextVideoId, runs, served, disk,
                 calls, panel, debounce, calc>>

\* ------------------------------- the processing panel, query-based version

\* The entry a poll of the query-based hook shows for a polled status.
QueryEntry(status) ==
    CASE status = "processed" ->
            [progress |-> 100, status |-> "completed", message |-> "Processing complete"]
      [] status = "error" ->
            [progress |-> 0, status |-> "error", message |-> "Processing failed"]
      [] status = "pending" ->
            [progress |-> 75, status |-> "processing", message |-> "Processing video..."]
      [] OTHER ->
            [progress |-> 0, status |-> "idle", message |-> "Waiting to start..."]

\* updatedProgress of a poll that read the dataset d.
QueryProgress(d) ==
    [v \in {w \in DOMAIN videos : videos[w].datasetId = d} |-> QueryEntry(videos[v].status)]

\* canProcess: isPending of the mutation is true while the request is awaited.
QueryCanProcess(d) ==
    /\ Len(DatasetVideos(d)) > 0
    /\ \E k \in 1..Len(DatasetVideos(d)) : IsVideoConfigured(DatasetVideos(d)[k])
    /\ session.pc # "awaiting"

\* stopPolling as the interval callback and the 5 min timeout call it: the
\* function of the render in which startPolling was created. captured tells
\* whether the pollIntervalId of that render was a timer; only then is the
\* interval cleared and the state set to null.
StopPolling(s) ==
    IF s.captured THEN [s EXCEPT !.polling = FALSE] ELSE s

\* isProcessing: processDatasetMutation.isPending || !!pollIntervalId
QueryIsProcessing(s) == s.pc = "awaiting" \/ s.polling

\* startProcessing(config) up to its await: the initial progress and the
\* batch request, which the server receives. closure is whether the
\* pollIntervalId its startPolling captured is a timer.
QueryStartProcessing(d, config) ==
    /\ session.pc = "idle"
    /\ QueryCanProcess(d)
    /\ ProcessDataset(d, config)
    /\ session' = [session EXCEPT
           !.pc = IF ProcessDatasetStatus(d, config) = 200 THEN "awaiting" ELSE "rejected",
           !.datasetId = d,
           !.run = IF ProcessDatasetStatus(d, config) = 200 THEN FreeSlot ELSE 0,
           !.closure = session.polling,
           !.isProcessing = TRUE,
           !.progress = InitialProgress(d)]
    /\ UNCHANGED calls

\* The batch request returns its summary and startPolling() runs: nothing
\* when the captured pollIntervalId is a timer; otherwise the interval and
\* the 5 min timeout are started, both calling the stopPolling of that
\* render.
QueryReturn ==
    /\ session.pc = "awaiting"
    /\ ProcessAck(session.run)
    /\ session' =
           IF session.closure
           THEN [session EXCEPT !.pc = "idle", !.run = 0, !.isProcessing = session.polling]
           ELSE [session EXCEPT !.pc = "idle", !.run = 0,
                                !.polling = TRUE,
                                !.captured = session.closure,
                                !.safetyNet = TRUE,
                                !.isProcessing = TRUE]

\* The batch request was answered with an error: the catch block of
\* startProcessing.
QueryCatch ==
    /\ session.pc = "rejected"
    /\ session' = [session EXCEPT
           !.pc = "idle",
           !.progress = [v \in DOMAIN @ |->
                            [@[v] EXCEPT !.status = "error", !.message = "Processing failed"]],
           !.isProcessing = session.polling]
    /\ UNCHANGED <<datasets, videos, nextDatasetId, nextVideoId, runs, served, disk,
                 calls, panel, debounce, calc>>

\* One tick of the interval: the dataset is fetched again and the progress
\* list replaced; when every entry is completed or error, stopPolling().
QueryPoll ==
    /\ session.polling
    /\ IF session.datasetId \notin DOMAIN datasets
       THEN session' = [session EXCEPT !.tick = 1 - @]
       ELSE LET updatedProgress == QueryProgress(session.datasetId)
                shown == [session EXCEPT !.tick = 1 - @, !.progress = updatedProgress]
                after == IF AllDone(updatedProgress) THEN StopPolling(shown) ELSE shown
            IN  session' = [after EXCEPT !.isProcessing = QueryIsProcessing(after)]
    /\ UNCHANGED <<datasets, videos, nextDatasetId, nextVideoId, runs, served, disk,
                 calls, panel, debounce, calc>>

\* A tick whose refetch throws: the catch block calls stopPolling().
QueryPollFails ==
    /\ session.polling
    /\ LET after == StopPolling([session EXCEPT !.tick = 1 - @])
       IN  session' = [after EXCEPT !.isProcessing = QueryIsProcessing(after)]
    /\ UNCHANGED <<datasets, videos, nextDatasetId, nextVideoId, runs, served, disk,
                 calls, panel, debounce, calc>>

\* The 5 min timeout fires: stopPolling().
QuerySafetyNetFires ==
    /\ session.safetyNet
    /\ LET after == StopPolling([session EXCEPT !.safetyNet = FALSE])
       IN  session' = [after EXCEPT !.isProcessing = QueryIsProcessing(after)]
    /\ UNCHANGED <<datasets, videos, nextDatasetId, nextVideoId, runs, served, disk,
                 calls, panel, debounce, calc>>

\* ------------------------------------------- crop functions (video-utils)

Max(a, b) == IF a >= b THEN a ELSE b

Min(a, b) == IF a <= b THEN a ELSE b

\* Math.round(a / b) for positive a and b: halves round up.
Round(a, b) == (2 * a + b) \div (2 * b)

\* Faulty variant of ComputeCropSizeForResolution: the comparison of the two
\* aspect ratios is the wrong way round.
ComputeCropSizeSwapped(resolution, originalWidth, originalHeight) ==
    LET r == ResolutionSize(resolution)
    IN  IF r.rw * originalHeight < originalWidth * r.rh
        THEN [width |-> originalWidth,
              height |-> Round(originalWidth * r.rh, r.rw)]
        ELSE [width |-> Round(originalHeight * r.rw, r.rh),
              height |-> originalHeight]

\* The largest rectangle of the resolution's aspect ratio inside the frame.
\* targetAspect > videoAspect is compared without dividing; width /
\* targetAspect is originalWidth * rh / rw.
ComputeCropSizeForResolution(resolution, originalWidth, originalHeight) ==
    LET r == ResolutionSize(resolution)
    IN  IF r.rw * originalHeight > originalWidth * r.rh
        THEN [width |-> originalWidth,
              height |-> Round(originalWidth * r.rh, r.rw)]
        ELSE [width |-> Round(originalHeight * r.rw, r.rh),
              height |-> originalHeight]

\* Positions (cropX, cropY) of the crop functions are in half pixels, so that
\* the halves centerCrop produces are exact; sizes are in pixels.
IsValidCrop(cropX, cropY, cropWidth, cropHeight, originalWidth, originalHeight) ==
    /\ cropX >= 0
    /\ cropY >= 0
    /\ cropX + 2 * cropWidth <= 2 * originalWidth
    /\ cropY + 2 * cropHeight <= 2 * originalHeight

\* Faulty variant of CenterCrop: originalWidth - cropWidth / 2, the division
\* binding tighter than the subtraction.
CenterCropUnparenthesised(cropWidth, cropHeight, originalWidth, originalHeight) ==
    [x |-> Max(0, 2 * originalWidth - cropWidth),
     y |-> Max(0, 2 * originalHeight - cropHeight)]

\* Math.max(0, (originalWidth - cropWidth) / 2), in half pixels.
CenterCrop(cropWidth, cropHeight, originalWidth, originalHeight) ==
    [x |-> Max(0, originalWidth - cropWidth),
     y |-> Max(0, originalHeight - cropHeight)]

\* Faulty variant of ConstrainCrop: maxX and maxY are the frame's width and
\* height, the crop size is not subtracted.
ConstrainCropToFrame(cropX, cropY, cropWidth, cropHeight, originalWidth, originalHeight) ==
    [x |-> Max(0, Min(2 * originalWidth, cropX)),
     y |-> Max(0, Min(2 * originalHeight, cropY))]

\* Math.max(0, Math.min(maxX, cropX)) with maxX = originalWidth - cropWidth.
ConstrainCrop(cropX, cropY, cropWidth, cropHeight, originalWidth, originalHeight) ==
    [x |-> Max(0, Min(2 * (originalWidth - cropWidth), cropX)),
     y |-> Max(0, Min(2 * (originalHeight - cropHeight), cropY))]

\* No crop function has been called.
NoCalc == [fn |-> "none"]

\* The frames of the uploads: the probed clip and the fallback.
UploadFrames ==
    {<<ClipMetadata.width, ClipMetadata.height>>, <<DefaultWidth, DefaultHeight>>}

\* Positions in half pixels, from outside the frame on either side.
Positions == (0 - 2)..(2 * MaxSide + 2)

\* The arguments of a call, before the function is applied: a resolution and
\* a frame, or a crop rectangle and a frame.
CalcInputs ==
    [fn : {"size input"}, resolution : Resolutions,
     frame : ((1..MaxFrame) \X (1..MaxFrame)) \cup UploadFrames]
    \cup
    [fn : {"crop input"}, frame : ((1..MaxSide) \X (1..MaxSide)) \cup UploadFrames,
     cropWidth : 1..MaxSide, cropHeight : 1..MaxSide,
     cropX : Positions, cropY : Positions]

ApplyComputeCropSize ==
    /\ calc.fn = "size input"
    /\ calc' = [fn |-> "computeCropSizeForResolution", in |-> calc,
                out |-> ComputeCropSizeForResolution(
                            calc.resolution, calc.frame[1], calc.frame[2])]

ApplyCenterCrop ==
    /\ calc.fn = "crop input"
    /\ calc' = [fn |-> "centerCrop", in |-> calc,
                out |-> CenterCrop(calc.cropWidth, calc.cropHeight,
                                   calc.frame[1], calc.frame[2])]

ApplyConstrainCrop ==
    /\ calc.fn = "crop input"
    /\ calc' = [fn |-> "constrainCrop", in |-> calc,
                out |-> ConstrainCrop(calc.cropX, calc.cropY,
                                      calc.cropWidth, calc.cropHeight,
                                      calc.frame[1], calc.frame[2])]

\* constrainCrop applied to its own result.
ApplyConstrainCropAgain ==
    /\ calc.fn = "constrainCrop"
    /\ calc' = [fn |-> "constrainCrop twice", in |-> calc.in, once |-> calc.out,
                out |-> ConstrainCrop(calc.out.x, calc.out.y,
                                      calc.in.cropWidth, calc.in.cropHeight,
                                      calc.in.frame[1], calc.in.frame[2])]

\* What a crop function call leaves alone.
CalcFrame ==
    UNCHANGED <<datasets, videos, nextDatasetId, nextVideoId, runs, served,
                session, disk, calls, panel, debounce>>

\* ----------------------------- the video detail panel (useCropManagement)

\* Values typed into the start time input.
TypedStartTimes == {5, 40}

\* Positions a drag of the crop rectangle ends at, in pixels.
DragPositions == {<<200, 10>>, <<2000, 2000>>}

\* The crop state the hook takes from the video it is given.
CropOfVideo(video) ==
    [resolution |-> video.resolution,
     cropX |-> 2 * video.cropX,
     cropY |-> 2 * video.cropY,
     cropWidth |-> IF video.cropWidth = 0 THEN video.originalWidth ELSE video.cropWidth,
     cropHeight |-> IF video.cropHeight = 0 THEN video.originalHeight ELSE video.cropHeight]

\* The data of the patch that saves a crop state.
CropData(crop) ==
    [resolution |-> crop.resolution,
     cropX |-> crop.cropX \div 2,
     cropY |-> crop.cropY \div 2,
     cropWidth |-> crop.cropWidth,
     cropHeight |-> crop.cropHeight]

\* The dependencies of the effect that resets the local crop state.
CropDeps(video) ==
    <<video.id, video.resolution, video.cropX, video.cropY, video.cropWidth,
      video.cropHeight, video.originalWidth, video.originalHeight>>

\* The page selects a video of the list, or reads the selected video again.
\* The panel stays mounted; its effects reset the start time and the local
\* crop when their dependencies changed. A pending save is left pending.
SelectVideo(v) ==
    /\ v \in DOMAIN videos
    /\ panel.video # <<videos[v]>>
    /\ panel' = [panel EXCEPT
           !.video = <<videos[v]>>,
           !.startTime =
               IF panel.video # <<>> /\ panel.video[1].id = v
                                    /\ panel.video[1].startTime = videos[v].startTime
               THEN @ ELSE videos[v].startTime,
           !.localCrop =
               IF panel.video # <<>> /\ CropDeps(panel.video[1]) = CropDeps(videos[v])
               THEN @ ELSE CropOfVideo(videos[v])]
    /\ UNCHANGED <<datasets, videos, nextDatasetId, nextVideoId, runs, served, session,
                   disk, calls, debounce, calc>>

\* handleStartTimeChange and handleCurrentAsStart: the value is kept and
\* saved at once.
SaveStartTime(newStartTime) ==
    /\ panel.video # <<>>
    /\ panel' = [panel EXCEPT !.startTime = newStartTime]
    /\ UpdateVideo(panel.video[1].id, [startTime |-> newStartTime])
    /\ UNCHANGED calls

\* parseFloat(e.target.value) || 0 of the number input.
HandleStartTimeChange(typed) ==
    /\ panel.video # <<>>
    /\ SaveStartTime(typed)

\* videoPlayer.currentTime is a position of the playback, the end included.
HandleCurrentAsStart(currentTime) ==
    /\ panel.video # <<>>
    /\ currentTime \in {0, panel.video[1].duration}
    /\ SaveStartTime(currentTime)

\* What a handler of the crop state leaves alone.
PanelFrame ==
    UNCHANGED <<datasets, videos, nextDatasetId, nextVideoId, runs, served, session,
                disk, calls, debounce, calc>>

\* updateCropPosition at the end of a drag: the position is constrained and
\* the save is scheduled, replacing a pending one.
UpdateCropPosition(newX, newY) ==
    /\ panel.video # <<>>
    /\ LET crop == panel.localCrop
           constrained == ConstrainCrop(2 * newX, 2 * newY, crop.cropWidth, crop.cropHeight,
                                        panel.video[1].originalWidth,
                                        panel.video[1].originalHeight)
       IN  panel' = [panel EXCEPT
               !.localCrop = [crop EXCEPT !.cropX = constrained.x, !.cropY = constrained.y],
               !.timer = <<panel.video[1].id>>]
    /\ PanelFrame

\* resetCropToMax: the largest crop of the resolution, centred; the save is
\* scheduled.
ResetCropToMax ==
    /\ panel.video # <<>>
    /\ LET crop == panel.localCrop
           size == ComputeCropSizeForResolution(crop.resolution,
                       panel.video[1].originalWidth, panel.video[1].originalHeight)
           centered == CenterCrop(size.width, size.height,
                           panel.video[1].originalWidth, panel.video[1].originalHeight)
       IN  panel' = [panel EXCEPT
               !.localCrop = [crop EXCEPT !.cropWidth = size.width,
                                          !.cropHeight = size.height,
                                          !.cropX = centered.x, !.cropY = centered.y],
               !.timer = <<panel.video[1].id>>]
    /\ PanelFrame

\* Faulty variant of ResolutionCrop: the top-left corner of the previous crop
\* is kept, not its centre.
ResolutionCropKeepsCorner(crop, newResolution, originalWidth, originalHeight) ==
    LET size == ComputeCropSizeForResolution(newResolution, originalWidth, originalHeight)
        constrained == ConstrainCrop(crop.cropX, crop.cropY, size.width, size.height,
                                     originalWidth, originalHeight)
    IN  [resolution |-> newResolution,
         cropWidth |-> size.width, cropHeight |-> size.height,
         cropX |-> constrained.x, cropY |-> constrained.y]

\* The crop handleResolutionChange computes: the size of the new resolution
\* around the centre of the previous crop, constrained to the frame.
ResolutionCrop(crop, newResolution, originalWidth, originalHeight) ==
    LET size == ComputeCropSizeForResolution(newResolution, originalWidth, originalHeight)
        newCropX == Max(0, crop.cropX + crop.cropWidth - size.width)
        newCropY == Max(0, crop.cropY + crop.cropHeight - size.height)
        constrained == ConstrainCrop(newCropX, newCropY, size.width, size.height,
                                     originalWidth, originalHeight)
    IN  [resolution |-> newResolution,
         cropWidth |-> size.width, cropHeight |-> size.height,
         cropX |-> constrained.x, cropY |-> constrained.y]

\* handleResolutionChange: the new crop is kept and saved at once.
HandleResolutionChange(newResolution) ==
    /\ panel.video # <<>>
    /\ LET newCrop == ResolutionCrop(panel.localCrop, newResolution,
                          panel.video[1].originalWidth, panel.video[1].originalHeight)
       IN  /\ panel' = [panel EXCEPT !.localCrop = newCrop]
           /\ UpdateVideo(panel.video[1].id, CropData(newCrop))
    /\ UNCHANGED calls

\* The 500 ms timeout of scheduleSave fires: the crop state the hook holds
\* now is saved to the video id the callback captured.
CropTimerFires ==
    /\ panel.timer # <<>>
    /\ panel' = [panel EXCEPT !.timer = <<>>]
    /\ UpdateVideo(panel.timer[1], CropData(panel.localCrop))
    /\ UNCHANGED calls

\* ------------------------------------------ debounced save (useDebouncedSave)

\* The values handed to scheduleSave and saveImmediately.
SaveValues == {1, 2, 3}

\* What the hook's callbacks leave alone.
DebounceFrame ==
    UNCHANGED <<datasets, videos, nextDatasetId, nextVideoId, runs, served, session,
                disk, calls, panel, calc>>

\* Faulty variant of ClearTimeout: the pending timeout is left running.
ClearTimeoutForgotten(timer) == timer

\* if (timeoutRef.current) clearTimeout(timeoutRef.current): no timeout is
\* pending afterwards.
ClearTimeout(timer) == <<>>

\* scheduleSave(data): the pending timeout is cleared and a new one started
\* that will save data. timer holds the data of the pending timeouts, oldest
\* first; burst is the data of the calls since no timeout was pending.
ScheduleSave(data) ==
    /\ debounce.mounted
    /\ debounce.edits < MaxEdits
    /\ debounce' = [debounce EXCEPT
           !.timer = Append(ClearTimeout(@), data),
           !.burst = Append(@, data),
           !.edits = @ + 1]
    /\ DebounceFrame

\* The delay of the oldest pending timeout has elapsed: debouncedSave(data)
\* calls onSave with the data the timeout was started with.
DebounceTimerFires ==
    /\ debounce.timer # <<>>
    /\ debounce' = [debounce EXCEPT
           !.timer = Tail(@),
           !.burst = IF Len(debounce.timer) = 1 THEN <<>> ELSE @,
           !.saved = Append(@, Head(debounce.timer))]
    /\ DebounceFrame

\* saveImmediately(data): the pending timeout is cleared and data is saved
\* at once.
SaveImmediately(data) ==
    /\ debounce.mounted
    /\ debounce.edits < MaxEdits
    /\ debounce' = [debounce EXCEPT
           !.timer = ClearTimeout(@),
           !.burst = <<>>,
           !.saved = Append(@, data),
           !.edits = @ + 1]
    /\ DebounceFrame

\* The component unmounts: the cleanup of the effect clears the pending
\* timeout.
DebounceUnmount ==
    /\ debounce.mounted
    /\ debounce' = [debounce EXCEPT
           !.mounted = FALSE,
           !.timer = ClearTimeout(@),
           !.burst = <<>>]
    /\ DebounceFrame

\* The component mounts again with a new instance of the hook.
DebounceMount ==
    /\ ~debounce.mounted
    /\ debounce' = [debounce EXCEPT !.mounted = TRUE]
    /\ DebounceFrame

\* ---------------------------------------------------------- specifications

Init ==
    /\ datasets = <<>>
    /\ videos = <<>>
    /\ nextDatasetId = 1
    /\ nextVideoId = 1
    /\ runs = [r \in RunSlots |-> NoRun]
    /\ served = 0
    /\ session = NoSession
    /\ disk = EmptyDisk
    /\ calls = NoCalls
    /\ panel = NoPanel
    /\ debounce = NoDebounce
    /\ calc = NoCalc

DatasetIds == 1..MaxDatasets

VideoIds == 1..MaxVideos

UploadBodies == UNION {[1..n -> FileKinds] : n \in 0..MaxFiles}

\* The upload bodies whose files are all readable; neither a lookup by id
\* nor a deletion reads the metadata of a video.
ClipBodies == {files \in UploadBodies : \A k \in 1..Len(files) : files[k] = "clip"}

ExitCodes == {0, 1}

\* The loop of a batch call in flight: the next write or converter exit.
LoopStep ==
    \E r \in RunSlots :
        \/ MarkPending(r)
        \/ \E exitCode \in ExitCodes : ConverterExit(r, exitCode)

\* The summary response reaches a client other than the processing panel.
Respond ==
    \E r \in RunSlots :
        session.run # r /\ ProcessAck(r) /\ UNCHANGED session

\* The steps of a batch run in flight.
RunStep == LoopStep \/ Respond

\* Requests other than the batch trigger, with patch bodies from B.
Request(B) ==
    /\ \/ \E name \in Names : CreateDataset(name)
       \/ \E d \in DatasetIds, files \in UploadBodies : UploadVideos(d, files)
       \/ \E v \in VideoIds, updates \in B : UpdateVideo(v, updates)
       \/ \E v \in VideoIds : DeleteVideo(v)
       \/ \E d \in DatasetIds : DeleteDataset(d)
    /\ UNCHANGED <<calls, panel>>

\* A batch trigger sent by some other client.
Trigger ==
    \E d \in DatasetIds, config \in Configs :
        ProcessDataset(d, config) /\ UNCHANGED <<session, calls>>

\* Every interleaving of requests with the steps of the runs in flight.
Next == Request(PatchBodies) \/ Trigger \/ RunStep

Spec == Init /\ [][Next]_vars

Idle == \A r \in RunSlots : runs[r].pc = "free"

\* One call at a time: a request is served only when no batch call is in
\* flight, so a run is the only writer while it runs.
NextSerial == (Idle /\ (Request(PatchBodies) \/ Trigger)) \/ RunStep

SpecSerial == Init /\ [][NextSerial]_vars

\* Every interleaving, with patch requests that carry configuration fields only.
NextConfigPatch == Request(ConfigPatchBodies) \/ Trigger \/ RunStep

SpecConfigPatch == Init /\ [][NextConfigPatch]_vars

\* One dataset and one batch run at a time with the edits of a user in
\* flight: videos are uploaded and their configuration is patched while the
\* run goes through its list.
NextSnapshot ==
    \/ nextDatasetId = 1 /\ CreateDataset("cats") /\ UNCHANGED <<calls, panel>>
    \/ \E files \in UploadBodies : UploadVideos(1, files) /\ UNCHANGED <<calls, panel>>
    \/ \E v \in VideoIds, updates \in ConfigPatchBodies :
           UpdateVideo(v, updates) /\ UNCHANGED <<calls, panel>>
    \/ Idle /\ Trigger
    \/ RunStep

SpecSnapshot == Init /\ [][NextSnapshot]_vars

\* The client receives the response of its request.
Answer(missing, early, status) ==
    calls' = [calls EXCEPT
                 !.answer = [missing |-> missing, early |-> early, status |-> status]]

\* One call at a time, sent by a client that watches the response of each
\* request. The response of an accepted batch trigger is the summary, which
\* arrives after the loop. Patches carry configuration fields.
NextLookup ==
    \/ Idle /\ \E name \in Names :
           CreateDataset(name) /\ Answer(FALSE, name = "", CreateDatasetStatus(name))
    \/ Idle /\ \E d \in DatasetIds :
           GetDataset(d) /\ Answer(d \notin DOMAIN datasets, FALSE, GetDatasetStatus(d))
    \/ Idle /\ \E d \in DatasetIds :
           DeleteDataset(d) /\ Answer(d \notin DOMAIN datasets, FALSE, DeleteDatasetStatus(d))
    \/ Idle /\ \E d \in DatasetIds, files \in ClipBodies :
           /\ UploadVideos(d, files)
           /\ Answer(d \notin DOMAIN datasets, Len(files) = 0, UploadVideosStatus(d, files))
    \/ Idle /\ \E d \in DatasetIds, config \in Configs :
           /\ ProcessDataset(d, config)
           /\ UNCHANGED session
           /\ IF ProcessDatasetStatus(d, config) = 200
              THEN UNCHANGED calls
              ELSE Answer(d \notin DOMAIN datasets, ConfigRejected(config),
                          ProcessDatasetStatus(d, config))
    \/ Idle /\ \E v \in VideoIds :
           GetVideo(v) /\ Answer(v \notin DOMAIN videos, FALSE, GetVideoStatus(v))
    \/ Idle /\ \E v \in VideoIds, updates \in ConfigPatchBodies :
           /\ UpdateVideo(v, updates)
           /\ UNCHANGED panel
           /\ Answer(v \notin DOMAIN videos, FALSE, UpdateVideoStatus(v, updates))
    \/ Idle /\ \E v \in VideoIds :
           DeleteVideo(v) /\ Answer(v \notin DOMAIN videos, FALSE, DeleteVideoStatus(v))
    \/ RunStep

SpecLookup == Init /\ [][NextLookup]_vars

\* Uploads and dataset deletions interleaved at their awaits, with video
\* deletions beside them. Batch runs fill the output directories; a run is
\* started when no upload or deletion is in flight and runs alone.
NextDeletion ==
    \/ Idle /\ \E name \in Names : CreateDataset(name) /\ UNCHANGED calls
    \/ Idle /\ \E d \in DatasetIds, files \in ClipBodies : UploadBegin(d, files)
    \/ Idle /\ UploadWrite
    \/ Idle /\ UploadInsert
    \/ Idle /\ UploadReturn
    \/ Idle /\ \E d \in DatasetIds : DeleteBegin(d)
    \/ Idle /\ DeleteNextFile
    \/ Idle /\ DeleteVideoRows
    \/ Idle /\ DeleteDatasetRow
    \/ Idle /\ DeleteUploadsDir
    \/ Idle /\ DeleteOutputDir
    \/ Idle /\ DeleteReturn
    \/ Idle /\ \E v \in VideoIds : DeleteVideo(v) /\ UNCHANGED calls
    \/ Idle /\ calls = NoCalls /\ Trigger
    \/ RunStep

SpecDeletion == Init /\ [][NextDeletion]_vars

\* The crop functions applied to every combination of arguments.
InitCrop ==
    /\ datasets = <<>>
    /\ videos = <<>>
    /\ nextDatasetId = 1
    /\ nextVideoId = 1
    /\ runs = [r \in RunSlots |-> NoRun]
    /\ served = 0
    /\ session = NoSession
    /\ disk = EmptyDisk
    /\ calls = NoCalls
    /\ panel = NoPanel
    /\ debounce = NoDebounce
    /\ calc \in CalcInputs

NextCrop ==
    \/ ApplyComputeCropSize /\ CalcFrame
    \/ ApplyCenterCrop /\ CalcFrame
    \/ ApplyConstrainCrop /\ CalcFrame
    \/ ApplyConstrainCropAgain /\ CalcFrame

SpecCrop == InitCrop /\ [][NextCrop]_vars

\* One browser with the detail page of the first dataset open: the dataset
\* is created and filled, videos are selected and their crop edited.
NextPanel ==
    \/ nextDatasetId = 1 /\ CreateDataset("cats") /\ UNCHANGED <<calls>>
    \/ \E files \in UploadBodies : UploadVideos(1, files) /\ UNCHANGED <<calls>>
    \/ \E v \in VideoIds : SelectVideo(v)
    \/ \E pos \in DragPositions : UpdateCropPosition(pos[1], pos[2])
    \/ ResetCropToMax
    \/ \E newResolution \in Resolutions : HandleResolutionChange(newResolution)
    \/ CropTimerFires

SpecPanel == Init /\ [][NextPanel]_vars

\* The writers of the start time: the detail page of the first dataset,
\* where videos are selected and their start time edited, and patch requests
\* of other clients.
NextStartTime ==
    \/ nextDatasetId = 1 /\ CreateDataset("cats") /\ UNCHANGED <<calls>>
    \/ \E files \in UploadBodies : UploadVideos(1, files) /\ UNCHANGED <<calls>>
    \/ \E v \in VideoIds : SelectVideo(v)
    \/ \E typed \in TypedStartTimes : HandleStartTimeChange(typed)
    \/ \E currentTime \in {0, DefaultDuration, ClipMetadata.duration} :
           HandleCurrentAsStart(currentTime)
    \/ \E v \in VideoIds, updates \in ConfigPatchBodies :
           UpdateVideo(v, updates) /\ UNCHANGED <<calls, panel>>

SpecStartTime == Init /\ [][NextStartTime]_vars

\* One component that uses the debounced save: values are scheduled, saved
\* at once, the delay elapses, the component unmounts and mounts.
NextDebounce ==
    \/ \E data \in SaveValues : ScheduleSave(data)
    \/ DebounceTimerFires
    \/ \E data \in SaveValues : SaveImmediately(data)
    \/ DebounceUnmount
    \/ DebounceMount

SpecDebounce == Init /\ [][NextDebounce]_vars

\* The event loop runs a timeout whose delay has elapsed.
SpecDebounceFair == SpecDebounce /\ WF_vars(DebounceTimerFires)

\* The steps of the processing panel.
PanelStep ==
    \/ \E d \in DatasetIds, config \in Configs : StartProcessing(d, config)
    \/ Poll
    \/ SessionReturn
    \/ SafetyNetFires
    \/ SessionCatch

\* One browser with the processing panel: datasets are created and filled,
\* batch runs are started from the panel only. GraceFires is not a step:
\* startProcessing runs only while isProcessing is false (canProcess), so
\* the isProcessing its polling callback captured is false and no poll ever
\* sets the 2 s timeout.
NextSession ==
    \/ \E name \in Names : CreateDataset(name) /\ UNCHANGED calls
    \/ \E d \in DatasetIds, files \in UploadBodies :
           UploadVideos(d, files) /\ UNCHANGED calls
    \/ LoopStep
    \/ PanelStep

SpecSession == Init /\ [][NextSession]_vars

\* The timers and callbacks of the browser's event loop run, responses are
\* delivered and database writes complete. The converter is an external
\* process whose stderr pipe is read only after it exited, so nothing makes
\* it exit.
SessionFairness ==
    /\ WF_vars(Poll)
    /\ WF_vars(SessionReturn)
    /\ WF_vars(SafetyNetFires)
    /\ WF_vars(SessionCatch)
    /\ WF_vars(\E r \in RunSlots : MarkPending(r))

SpecSessionFair == SpecSession /\ SessionFairness

\* One browser with the query-based processing panel: datasets are created
\* and filled, batch runs are started from the panel only.
NextQuery ==
    \/ \E name \in Names : CreateDataset(name) /\ UNCHANGED calls
    \/ \E d \in DatasetIds, files \in UploadBodies :
           UploadVideos(d, files) /\ UNCHANGED calls
    \/ LoopStep
    \/ \E d \in DatasetIds, config \in Configs : QueryStartProcessing(d, config)
    \/ QueryReturn
    \/ QueryCatch
    \/ QueryPoll
    \/ QueryPollFails
    \/ QuerySafetyNetFires

SpecQuery == Init /\ [][NextQuery]_vars

\* The interval and the timeout of the browser's event loop run, responses
\* are delivered and database writes complete.
QueryFairness ==
    /\ WF_vars(QueryPoll)
    /\ WF_vars(QueryReturn)
    /\ WF_vars(QuerySafetyNetFires)
    /\ WF_vars(QueryCatch)
    /\ WF_vars(\E r \in RunSlots : MarkPending(r))

SpecQueryFair == SpecQuery /\ QueryFairness

\* The statuses a poll is applied to: the three of the table and one other.
PolledStatuses == Statuses \cup {"queued"}

\* The progress entries the panel produces: the progress values and the
\* messages of InitialEntry, DeriveEntry and the catch block.
ProducedEntries ==
    [progress : {0, 25, 75, 100},
     status : {"idle", "processing", "completed", "error"},
     message : {"Already processed", "Starting processing...", "Processing complete",
                "Processing failed", "Processing video...", "Waiting to start..."}]

\* A panel polling dataset 1, whose only video has any status and any or no
\* previous entry.
InitMapping ==
    /\ datasets = (1 :> [name |-> "cats"])
    /\ nextDatasetId = 2
    /\ nextVideoId = 2
    /\ runs = [r \in RunSlots |-> NoRun]
    /\ served = 0
    /\ disk = [EmptyDisk EXCEPT !.raw = {UploadPath(1, 1)}, !.written = 1]
    /\ calls = NoCalls
    /\ panel = NoPanel
    /\ debounce = NoDebounce
    /\ calc = NoCalc
    /\ \E status \in PolledStatuses :
           videos = (1 :> [NewVideo(1, 1, "clip", UploadPath(1, 1)) EXCEPT
                              !.status = status])
    /\ \E progress \in {<<>>} \cup {(1 :> e) : e \in ProducedEntries} :
           session = [NoSession EXCEPT
                         !.datasetId = 1, !.isProcessing = TRUE,
                         !.polling = TRUE, !.progress = progress]

\* The poll mapping applied to every status and every previous entry.
SpecMapping == InitMapping /\ [][Poll]_vars

\* ------------------------------------------------------------------ claims

\* A batch configuration as the interface documents it: both fields present
\* and positive.
ConfigValid(config) ==
    /\ "fps" \in DOMAIN config /\ config.fps > 0
    /\ "frameCount" \in DOMAIN config /\ config.frameCount > 0

\* The step writes the outcome of a conversion of video v in some run.
ByBatchProcessor(v) ==
    \E r \in RunSlots :
        /\ runs[r].pc = "convert"
        /\ CurrentVideo(r).id = v
        /\ runs'[r].pc # "convert"

\* C1 (checked under SpecSerial: the run is the only writer). When a run with
\* a valid configuration returns, every video of the dataset whose converter
\* exited non-zero has status error, every other one has status processed,
\* and the response is processedCount = N - |F|, totalVideos = N.
C1_BatchIsolation ==
    \A r \in RunSlots :
        (runs[r].pc = "done" /\ ConfigValid(runs[r].config)) =>
            LET run == runs[r]
                N == Len(run.list)
            IN  /\ \A k \in 1..N :
                       /\ run.list[k].id \in DOMAIN videos
                       /\ videos[run.list[k].id].status =
                              IF run.list[k].id \in run.failed THEN "error" ELSE "processed"
                /\ ProcessResponse(run) =
                       [processedCount |-> N - Cardinality(run.failed), totalVideos |-> N]

\* C1 witness: a run over two videos has returned, one of them failed.
C1_Witness ==
    \E r \in RunSlots :
        /\ runs[r].pc = "done"
        /\ ConfigValid(runs[r].config)
        /\ Len(runs[r].list) = 2
        /\ Cardinality(runs[r].failed) = 1

\* C2 (the claim as stated). Every stored status is one of pending,
\* processed, error; an uploaded video starts pending; and a status changes
\* to processed or error only in a step of a batch run on that video.
C2_StatusClosure ==
    [][\A v \in DOMAIN videos' :
          /\ videos'[v].status \in Statuses
          /\ v \notin DOMAIN videos => videos'[v].status = "pending"
          /\ (/\ v \in DOMAIN videos
              /\ videos'[v].status # videos[v].status
              /\ videos'[v].status \in {"processed", "error"})
             => ByBatchProcessor(v)]_vars

\* The status changes the lifecycle permits.
AllowedTransitions ==
    { <<"pending", "processed">>, <<"pending", "error">>,
      <<"processed", "pending">>, <<"error", "pending">> }

\* C3 (the claim as stated, checked under SpecConfigPatch: overlapping runs,
\* patches of configuration fields only). Every change of a video's status
\* is one of the permitted transitions.
C3_AllowedTransitions ==
    [][\A v \in DOMAIN videos \cap DOMAIN videos' :
          videos'[v].status # videos[v].status =>
              <<videos[v].status, videos'[v].status>> \in AllowedTransitions]_vars

C5_InvalidConfigRejected ==
    [][\A d \in DatasetIds, config \in Configs :
          (ProcessDataset(d, config) /\ ~ConfigValid(config)) =>
              (ProcessDatasetStatus(d, config) = 400 /\ UNCHANGED <<videos, runs>>)]_vars

\* C6 (the claim as stated). Every stored crop rectangle lies inside the
\* source frame.
C6_CropInsideFrame ==
    \A v \in DOMAIN videos :
        /\ videos[v].cropX >= 0
        /\ videos[v].cropY >= 0
        /\ videos[v].cropX + videos[v].cropWidth <= videos[v].originalWidth
        /\ videos[v].cropY + videos[v].cropHeight <= videos[v].originalHeight

\* A patch body with configuration fields only, each with a value the table
\* accepts.
ConfigOnly(updates) ==
    /\ DOMAIN updates \subseteq ConfigFields
    /\ ~ViolatesCheck(updates)

\* C7. A patch of an existing video that carries configuration fields only
\* is answered 200 and leaves status, fps and frameCount as they were.
C7_ConfigPatchKeepsStatus ==
    [][\A v \in VideoIds, updates \in PatchBodies :
          (/\ v \in DOMAIN videos
           /\ ConfigOnly(updates)
           /\ nextVideoId' = nextVideoId
           /\ runs' = runs
           /\ disk' = disk
           /\ UpdateVideo(v, updates)) =>
              /\ UpdateVideoStatus(v, updates) = 200
              /\ v \in DOMAIN videos'
              /\ videos'[v].status = videos[v].status
              /\ videos'[v].fps = videos[v].fps
              /\ videos'[v].frameCount = videos[v].frameCount]_vars

\* C7 witness: a video a run has processed (its fps is the run's) carries a
\* patched start time and is still processed.
C7_Witness ==
    \E v \in DOMAIN videos :
        /\ videos[v].status = "processed"
        /\ videos[v].fps = {16}
        /\ videos[v].startTime = 5

\* C8 (the claim as stated). A patch that names a column outside the
\* configuration fields, or gives one of them a value the table refuses,
\* is answered 400 and leaves the stored videos unchanged.
C8_PatchValidated ==
    [][\A v \in VideoIds, updates \in PatchBodies :
          (UpdateVideo(v, updates) /\ v \in DOMAIN videos /\ ~ConfigOnly(updates)) =>
              (UpdateVideoStatus(v, updates) = 400 /\ videos' = videos)]_vars

C10_RunEffectOnRates ==
    \A r \in RunSlots :
        runs[r].pc = "done" =>
            \A k \in 1..Len(runs[r].list) :
                LET before == runs[r].list[k]
                IN  /\ before.id \in DOMAIN videos
                    /\ IF before.id \in runs[r].failed
                       THEN /\ videos[before.id].status = "error"
                            /\ videos[before.id].fps = before.fps
                            /\ videos[before.id].frameCount = before.frameCount
                       ELSE /\ videos[before.id].status = "processed"
                            /\ videos[before.id].fps = {runs[r].config.fps}
                            /\ videos[before.id].frameCount = {runs[r].config.frameCount}

\* C10 witness: a run has returned with one video failed whose fps was set
\* before the run, and one video converted.
C10_Witness ==
    \E r \in RunSlots :
        /\ runs[r].pc = "done"
        /\ \E k \in 1..Len(runs[r].list) :
               /\ runs[r].list[k].id \in runs[r].failed
               /\ runs[r].list[k].fps # Null
        /\ \E k \in 1..Len(runs[r].list) :
               runs[r].list[k].id \notin runs[r].failed

\* C11 (checked under SpecSerial: the run is the only writer). When a batch
\* call produces its summary response, the loop has gone past every video
\* of its list and none of them is stored as pending.
C11_SynchronousReturn ==
    \A r \in RunSlots :
        runs[r].pc = "done" =>
            \A k \in 1..Len(runs[r].list) :
                /\ k < runs[r].i
                /\ runs[r].list[k].id \in DOMAIN videos
                /\ videos[runs[r].list[k].id].status # "pending"

\* C11 witness: a call over two videos is about to return.
C11_Witness ==
    \E r \in RunSlots :
        /\ runs[r].pc = "done"
        /\ Len(runs[r].list) = 2
        /\ runs[r].i = 3

\* Every video of dataset d is stored as processed or error.
AllStored(d) ==
    \A v \in DOMAIN videos :
        videos[v].datasetId = d => videos[v].status \in {"processed", "error"}

\* C12 (the claim as stated). During a processing session, a poll that finds
\* every video of the dataset stored as processed or error derives a list
\* whose entries are all completed or error, and that poll schedules the
\* end of the session (the 2 s timeout).
C12_CompletionDetected ==
    [][(/\ Poll
        /\ session.isProcessing
        /\ session.datasetId \in DOMAIN datasets
        /\ AllStored(session.datasetId))
       => (AllDone(session'.progress) /\ session'.grace)]_vars

\* C13 (the claim as stated). Whenever the panel is polling, polling
\* eventually stops.
C13_PollingStops == session.polling ~> ~session.polling

\* The table of the progress mapping (prev is <<>> or <<entry>>).
TableEntry(status, prev) ==
    IF status = "processed"
    THEN [status |-> "completed", progress |-> 100, message |-> "Processing complete"]
    ELSE IF status = "error"
    THEN [status |-> "error", progress |-> IF prev = <<>> THEN 0 ELSE prev[1].progress,
          message |-> "Processing failed"]
    ELSE IF status = "pending"
    THEN [status |-> "processing", progress |-> 75, message |-> "Processing video..."]
    ELSE IF prev # <<>> /\ prev[1].status = "processing"
    THEN [status |-> "processing", progress |-> prev[1].progress,
          message |-> prev[1].message]
    ELSE [status |-> "idle", progress |-> 0, message |-> "Waiting to start..."]

MarkedInRun(r, v) ==
    \E k \in 1..Len(runs[r].list) :
        /\ runs[r].list[k].id = v
        /\ k < runs[r].i \/ (k = runs[r].i /\ runs[r].pc = "convert")

\* C15 (the claim as stated). While the panel's batch run is in flight, a
\* poll reports a video as processing only if the run has marked it pending.
C15_ProcessingMeansStarted ==
    [][(Poll /\ session.pc = "awaiting") =>
          \A v \in DOMAIN session'.progress :
              session'.progress[v].status = "processing" => MarkedInRun(session.run, v)]_vars

\* The converter of run r is running.
Converting(r) == runs[r].pc = "convert"

\* C16 (the claim as stated, checked under SpecConfigPatch: batch triggers
\* may overlap). No two converters run for videos of the same dataset, and
\* while a run converts video i every earlier video of its list is stored
\* as processed or error.
C16_OneConversionPerDataset ==
    /\ \A r1, r2 \in RunSlots :
           (r1 # r2 /\ Converting(r1) /\ Converting(r2)) =>
               runs[r1].datasetId # runs[r2].datasetId
    /\ \A r \in RunSlots :
           Converting(r) =>
               \A k \in 1..(runs[r].i - 1) :
                   runs[r].list[k].id \in DOMAIN videos =>
                       videos[runs[r].list[k].id].status \in {"processed", "error"}

\* C17 (the claim as stated). A run writes only videos of its own dataset,
\* and the output directory of a dataset, which its runs write to and its
\* deletion removes, belongs to no other dataset.
C17_DatasetIsolation ==
    /\ \A r \in RunSlots :
           runs[r].pc # "free" =>
               \A k \in 1..Len(runs[r].list) :
                   runs[r].list[k].datasetId = runs[r].datasetId
    /\ \A d, e \in DOMAIN datasets :
           d # e => OutputDir(datasets[d].name) # OutputDir(datasets[e].name)

\* The deletion call reports success with this step.
DeleteSucceeds == calls.delete.pc = "output" /\ calls'.delete.pc = "succeeded"

\* C18 (checked under SpecDeletion: uploads interleave with the deletion at
\* every await). When deleteDataset reports success the dataset record is
\* gone, no video record has its datasetId, and the raw files of its videos
\* (those of the snapshot and those of the rows the call removed) and the
\* files of its output directory are gone.
C18_DeletionCascades ==
    [][DeleteSucceeds =>
          LET c == calls'.delete
          IN  /\ c.datasetId \notin DOMAIN datasets'
              /\ \A v \in DOMAIN videos' : videos'[v].datasetId # c.datasetId
              /\ \A k \in 1..Len(c.list) : c.list[k].filepath \notin disk'.raw
              /\ c.removed \cap disk'.raw = {}
              /\ \A f \in disk'.out : f.dir # OutputDir(c.name)]_vars

\* A deletion has succeeded that removed the row of a video an upload to the
\* same dataset stored after the deletion had read the dataset.
C18_Witness ==
    /\ calls.delete.pc = "succeeded"
    /\ calls.upload.pc \in {"done", "failed"}
    /\ calls.upload.datasetId = calls.delete.datasetId
    /\ \E f \in calls.delete.removed :
           \A k \in 1..Len(calls.delete.list) : calls.delete.list[k].filepath # f

\* The client has received a response that differs from the one before.
Answered == calls'.answer # calls.answer

\* Every stored dataset, video and file, and the runs and id counters.
stored == <<datasets, videos, disk, runs, nextDatasetId, nextVideoId>>

C20_ExtractionFailureStored ==
    [][\A d \in DatasetIds, files \in UploadBodies :
          (/\ nextVideoId' = nextVideoId + Len(files)
           /\ UploadVideosStatus(d, files) = 200
           /\ UploadVideos(d, files)) =>
              \A k \in 1..Len(files) :
                  /\ nextVideoId + k - 1 \in DOMAIN videos' \ DOMAIN videos
                  /\ videos'[nextVideoId + k - 1].datasetId = d
                  /\ ~ProbeSucceeds(files[k]) =>
                         LET row == videos'[nextVideoId + k - 1]
                         IN  /\ row.status = "pending"
                             /\ row.duration = DefaultDuration
                             /\ row.originalWidth = DefaultWidth
                             /\ row.originalHeight = DefaultHeight
                             /\ row.cropX = 0 /\ row.cropY = 0
                             /\ row.cropWidth = DefaultWidth
                             /\ row.cropHeight = DefaultHeight]_vars

\* C20 witness: one upload has stored an unreadable file with the fallback
\* values and, after it, a file whose probe succeeded.
C20_Witness ==
    \E v \in DOMAIN videos :
        /\ v + 1 \in DOMAIN videos
        /\ videos[v].datasetId = videos[v + 1].datasetId
        /\ videos[v].status = "pending"
        /\ videos[v].duration = DefaultDuration
        /\ videos[v].originalWidth = DefaultWidth
        /\ videos[v].cropWidth = DefaultWidth
        /\ videos[v + 1].originalWidth = ClipMetadata.width
        /\ videos[v].filepath \in disk.raw /\ videos[v + 1].filepath \in disk.raw
        /\ served = 2

\* The absolute value of an integer.
Abs(n) == IF n >= 0 THEN n ELSE 0 - n

\* C22. For every resolution and every frame, computeCropSizeForResolution
\* returns a size (w, h) inside the frame, with the limiting side equal to
\* the frame's side and |w/h - rw/rh| <= 1/min(w, h) (compared after
\* multiplying by the denominators h, rh and min(w, h)).
C22_AspectFit ==
    calc.fn = "computeCropSizeForResolution" =>
        LET w == calc.out.width
            h == calc.out.height
            r == ResolutionSize(calc.in.resolution)
        IN  /\ w >= 1 /\ h >= 1
            /\ w <= calc.in.frame[1]
            /\ h <= calc.in.frame[2]
            /\ w = calc.in.frame[1] \/ h = calc.in.frame[2]
            /\ Abs(w * r.rh - r.rw * h) * Min(w, h) <= h * r.rh

\* C22 witness: 768x768 on the 1920x1080 frame has given 1080x1080.
C22_Witness ==
    /\ calc.fn = "computeCropSizeForResolution"
    /\ calc.in.resolution = "768x768"
    /\ calc.in.frame = <<1920, 1080>>
    /\ calc.out = [width |-> 1080, height |-> 1080]

\* C23. For a crop no larger than the frame, the position centerCrop returns
\* is a valid crop position.
C23_CenterIsValid ==
    (/\ calc.fn = "centerCrop"
     /\ calc.in.cropWidth <= calc.in.frame[1]
     /\ calc.in.cropHeight <= calc.in.frame[2]) =>
        IsValidCrop(calc.out.x, calc.out.y, calc.in.cropWidth, calc.in.cropHeight,
                    calc.in.frame[1], calc.in.frame[2])

\* C23 witness: a crop narrower than the frame by an odd number of pixels has
\* been centred at a half-pixel position.
C23_Witness ==
    /\ calc.fn = "centerCrop"
    /\ calc.in.cropWidth < calc.in.frame[1]
    /\ calc.in.cropHeight <= calc.in.frame[2]
    /\ calc.out.x % 2 = 1

\* The call's crop is no larger than its frame.
CropFits == calc.in.cropWidth <= calc.in.frame[1] /\ calc.in.cropHeight <= calc.in.frame[2]

\* C24. constrainCrop returns a valid position unchanged; for a crop no
\* larger than the frame its result is a valid position, and applying it to
\* its result returns that result.
C24_ConstrainNoOp ==
    /\ (/\ calc.fn = "constrainCrop"
        /\ IsValidCrop(calc.in.cropX, calc.in.cropY, calc.in.cropWidth,
                       calc.in.cropHeight, calc.in.frame[1], calc.in.frame[2])) =>
           calc.out = [x |-> calc.in.cropX, y |-> calc.in.cropY]
    /\ (calc.fn \in {"constrainCrop", "constrainCrop twice"} /\ CropFits) =>
           IsValidCrop(calc.out.x, calc.out.y, calc.in.cropWidth,
                       calc.in.cropHeight, calc.in.frame[1], calc.in.frame[2])
    /\ (calc.fn = "constrainCrop twice" /\ CropFits) => calc.out = calc.once

\* C24 witness: a position outside the frame has been constrained, and the
\* second application returned the same position.
C24_Witness ==
    /\ calc.fn = "constrainCrop twice"
    /\ CropFits
    /\ calc.in.cropX < 0
    /\ calc.in.cropY + 2 * calc.in.cropHeight > 2 * calc.in.frame[2]
    /\ calc.once = calc.out

\* C21 (the claim as stated). Every stored video satisfies
\* 0 <= startTime < duration.
C21_StartTimeInRange ==
    \A v \in DOMAIN videos :
        0 <= videos[v].startTime /\ videos[v].startTime < videos[v].duration

\* The position that keeps the centre (c is the previous position plus the
\* previous size, in half pixels), moved to the nearest position of [0, max].
Nearest(c, size, original) == Max(0, Min(2 * (original - size), c - size))

\* C26. After handleResolutionChange the local crop has the resolution and
\* the size computed for it, lies inside the frame, and its position keeps
\* the centre of the previous crop where a crop of the new size around that
\* centre fits, and is the nearest position inside the frame otherwise; the
\* same crop is saved to the video.
C26_ResolutionKeepsCentre ==
    [][\A newResolution \in Resolutions :
          (/\ panel.video # <<>>
           /\ panel'.video = panel.video
           /\ panel'.timer = panel.timer
           /\ HandleResolutionChange(newResolution)) =>
              LET old == panel.localCrop
                  new == panel'.localCrop
                  W == panel.video[1].originalWidth
                  H == panel.video[1].originalHeight
                  size == ComputeCropSizeForResolution(newResolution, W, H)
              IN  /\ new.resolution = newResolution
                  /\ new.cropWidth = size.width /\ new.cropHeight = size.height
                  /\ IsValidCrop(new.cropX, new.cropY, new.cropWidth, new.cropHeight, W, H)
                  /\ new.cropX = Nearest(old.cropX + old.cropWidth, size.width, W)
                  /\ new.cropY = Nearest(old.cropY + old.cropHeight, size.height, H)
                  /\ (old.cropX + old.cropWidth - size.width \in 0..(2 * (W - size.width)))
                         => new.cropX + new.cropWidth = old.cropX + old.cropWidth
                  /\ (old.cropY + old.cropHeight - size.height \in 0..(2 * (H - size.height)))
                         => new.cropY + new.cropHeight = old.cropY + old.cropHeight
                  /\ panel.video[1].id \in DOMAIN videos =>
                         \A c \in DOMAIN CropData(new) :
                             videos'[panel.video[1].id][c] = CropData(new)[c]]_vars

\* C26 witness: the crop of a video was dragged off centre, then the
\* resolution was changed to 768x768: the stored crop is the square of the
\* frame's height at a position that is not at an edge of the frame, not
\* centred and not the position the drag ended at.
C26_Witness ==
    /\ panel.video # <<>>
    /\ panel.localCrop.resolution = "768x768"
    /\ panel.localCrop.cropWidth = panel.video[1].originalHeight
    /\ panel.localCrop.cropX \notin
           {0, 400,
            panel.video[1].originalWidth - panel.localCrop.cropWidth,
            2 * (panel.video[1].originalWidth - panel.localCrop.cropWidth)}
    /\ panel.video[1].id \in DOMAIN videos
    /\ videos[panel.video[1].id].resolution = "768x768"
    /\ 2 * videos[panel.video[1].id].cropX = panel.localCrop.cropX

\* C29 (the claim as stated). When the delayed crop save fires, the video it
\* is addressed to is the video whose crop state the hook holds, so the
\* values of another video are never written into it.
C29_SaveStaysWithVideo ==
    [][CropTimerFires => panel.timer[1] = panel.video[1].id]_vars

\* The columns the batch processor writes.
RunColumns == {"status", "fps", "frameCount"}

\* C25. A step of the loop of a batch run (the pending write, the processed
\* or error write) removes no video and changes no column of any video
\* other than status, fps and frameCount: the start time, the resolution and
\* the crop a patch stored during the run are still stored after the run
\* wrote the final status.
C25_RunKeepsConfig ==
    [][LoopStep =>
          \A v \in DOMAIN videos :
              /\ v \in DOMAIN videos'
              /\ \A f \in DOMAIN videos[v] \ RunColumns :
                     videos'[v][f] = videos[v][f]]_vars

\* C25 witness: a run that is still going has written the final status of
\* the first video of its list; the run read that video with start time 0
\* and the default crop, and the stored row carries the patched start time,
\* resolution and crop next to the status processed.
C25_Witness ==
    \E r \in RunSlots :
        /\ runs[r].pc \in {"mark", "convert"}
        /\ runs[r].i = 2
        /\ LET before == runs[r].list[1]
           IN  /\ before.id \in DOMAIN videos
               /\ before.startTime = 0
               /\ before.resolution = "1280x720"
               /\ videos[before.id].status = "processed"
               /\ videos[before.id].startTime = 5
               /\ videos[before.id].resolution = "768x768"
               /\ videos[before.id].cropWidth = 480

\* The ids of the videos a run read at its start.
SnapshotIds(r) == {runs[r].list[k].id : k \in 1..Len(runs[r].list)}

\* C28. The list of a run is the list of the dataset's videos read when the
\* call was accepted and never changes while the run lasts; the converter
\* of the current video is spawned with the start time, resolution and crop
\* of that video in the list; and a step of the loop changes no video
\* outside the list.
C28_RunUsesSnapshot ==
    [][\A r \in RunSlots :
          /\ (runs[r].pc = "free" /\ runs'[r].pc # "free") =>
                 runs'[r].list = DatasetVideos(runs'[r].datasetId)
          /\ (runs[r].pc # "free" /\ runs'[r].pc # "free") =>
                 runs'[r].list = runs[r].list
          /\ runs'[r].pc = "convert" =>
                 LET before == runs'[r].list[runs'[r].i]
                     args == runs'[r].spawned[1]
                 IN  /\ runs'[r].spawned # <<>>
                     /\ args.input = before.filepath
                     /\ args.ss = before.startTime
                     /\ args.scale = ResolutionSize(before.resolution)
                     /\ args.crop = <<before.cropWidth, before.cropHeight,
                                      before.cropX, before.cropY>>
          /\ (MarkPending(r) \/ \E exitCode \in ExitCodes : ConverterExit(r, exitCode)) =>
                 \A v \in DOMAIN videos :
                     videos'[v] # videos[v] => v \in SnapshotIds(r)]_vars

\* C28 witness: the converter of a video is running with the start time 0
\* and the full frame the run read at its start, while the stored row of
\* that video carries the start time and crop of a patch that arrived after
\* the run began.
C28_Witness ==
    \E r \in RunSlots :
        /\ runs[r].pc = "convert"
        /\ runs[r].spawned # <<>>
        /\ runs[r].spawned[1].ss = 0
        /\ runs[r].spawned[1].crop[1] # 480
        /\ CurrentVideo(r).id \in DOMAIN videos
        /\ videos[CurrentVideo(r).id].startTime = 5
        /\ videos[CurrentVideo(r).id].cropWidth = 480

\* The last element of a sequence that is not empty.
Last(seq) == seq[Len(seq)]

C30_PollingEnds == session.polling ~> ~session.isProcessing

====
